---- MODULE Spec2Model ----
(***************************************************************************)
(* Model of sdk/keyvault/azure-security-keyvault-common/src/sha.cpp: the   *)
(* SHA256/SHA384/SHA512 incremental hashes of the Key Vault client, built  *)
(* over OpenSSL's EVP digest context (AZ_PLATFORM_POSIX) or over the       *)
(* Windows BCrypt hash object (AZ_PLATFORM_WINDOWS).                       *)
(*                                                                         *)
(* The two cryptographic libraries are collaborators of the file; they are *)
(* modelled by what their primitives do to a handle: a table `heap` of     *)
(* native handles, each with its state, its algorithm and the bytes fed    *)
(* to it.  Every primitive that can report failure does so                 *)
(* nondeterministically.  A digest is the pair (algorithm, bytes hashed),  *)
(* cut to the length the backend reports.                                  *)
(***************************************************************************)
EXTENDS Integers, Sequences, FiniteSets, TLC

VARIABLES platform, heap, life, obj, hist

vars == <<platform, heap, life, obj, hist>>

(***************************************************************************)
(* Bounds of the model.                                                    *)
(***************************************************************************)
\* Append/Final calls made on the instance of the one-instance specification.
MaxCalls == 3
\* Append/Final calls made altogether on the instances of the two-instance
\* specification.
MaxCallsPair == 3

(***************************************************************************)
(* Lengths.  std::size_t is 64 bits wide and ULONG 32 bits; a length is    *)
(* kept exactly as q * 2^30 + r with 0 <= r < 2^30, so that 2^32 and the   *)
(* narrowing to ULONG are represented within small integers.               *)
(***************************************************************************)
ULongBits == 32

Unit == 2 ^ 30

ULongUnits == 2 ^ (ULongBits - 30)

Sz(q, r) == [q |-> q, r |-> r]

LZero == Sz(0, 0)

LAdd(x, y) == Sz(x.q + y.q + ((x.r + y.r) \div Unit), (x.r + y.r) % Unit)

LLeq(x, y) == x.q < y.q \/ (x.q = y.q /\ x.r <= y.r)

\* x - y, for y <= x
LSub(x, y) ==
  IF x.r >= y.r THEN Sz(x.q - y.q, x.r - y.r)
  ELSE Sz(x.q - y.q - 1, x.r + Unit - y.r)

\* static_cast<ULONG>(length): the low ULongBits bits of the length
ToULONG(length) == Sz(length.q % ULongUnits, length.r)

(***************************************************************************)
(* Byte strings, run-length encoded: a sequence of runs [b, n] (n > 0      *)
(* copies of byte b), adjacent runs holding different bytes.               *)
(***************************************************************************)
Run(b, n) == [b |-> b, n |-> n]

Concat(s, t) ==
  IF s = <<>> THEN t
  ELSE IF t = <<>> THEN s
  ELSE IF s[Len(s)].b = t[1].b
    THEN SubSeq(s, 1, Len(s) - 1)
         \o <<Run(t[1].b, LAdd(s[Len(s)].n, t[1].n))>>
         \o SubSeq(t, 2, Len(t))
    ELSE s \o t

RECURSIVE DataLen(_)
DataLen(s) == IF s = <<>> THEN LZero ELSE LAdd(s[1].n, DataLen(Tail(s)))

\* The first k bytes of s: what a primitive reads from (pointer, count).
RECURSIVE Take(_, _)
Take(s, k) ==
  IF s = <<>> \/ k = LZero THEN <<>>
  ELSE IF LLeq(s[1].n, k) THEN <<s[1]>> \o Take(Tail(s), LSub(k, s[1].n))
  ELSE <<Run(s[1].b, k)>>

(***************************************************************************)
(* Instances, handles, algorithms.                                         *)
(***************************************************************************)
Instances == {1, 2}

\* An instance holds at most two native handles (provider and hash object).
Handles == 1 .. (2 * Cardinality(Instances))

\* NULL / nullptr
NoHandle == 0

\* enum class SHASize, and the three public classes that select it
SHASize == {"SHA256", "SHA384", "SHA512"}

\* digest length, in bytes, of a backend algorithm
MdSize(md) ==
  CASE md = "sha256" -> 32
    [] md = "sha384" -> 48
    [] md = "sha512" -> 64
    [] OTHER -> 0

\* capacity of the scratch buffer finalHash
EVP_MAX_MD_SIZE == 64

\* BCRYPT_OBJECT_LENGTH of a provider: implementation defined, only ever
\* compared with the size of the buffer handed to BCryptCreateHash
ObjectLength(md) == 4 * MdSize(md)

NoRecord ==
  [kind |-> "none", st |-> "none", md |-> "none", data |-> <<>>, owner |-> 0,
   provider |-> NoHandle, released |-> 0, finals |-> 0, misused |-> FALSE]

\* The address the next allocation returns: a handle not handed out before.
Fresh(hp) ==
  CHOOSE h \in Handles :
    /\ hp[h].kind = "none"
    /\ \A k \in Handles : k < h => hp[k].kind /= "none"

\* the value of a hash function: its algorithm and the message hashed
Digest(md, data) == [md |-> md, msg |-> data]

\* std::vector<uint8_t> holding the first len bytes of a digest buffer
Vector(hash, len) == [present |-> TRUE, md |-> hash.md, msg |-> hash.msg, len |-> len]

NoValue == [present |-> FALSE, md |-> "none", msg |-> <<>>, len |-> 0]

Call(prim, ok, cb) == [prim |-> prim, ok |-> ok, cb |-> cb]

(***************************************************************************)
(* OpenSSL primitives.  `ok` is the outcome the library chooses.           *)
(***************************************************************************)
EVP_MD_CTX_new(hp, who, ok) ==
  IF ok
  THEN LET h == Fresh(hp)
       IN [heap |-> [hp EXCEPT ![h] = [NoRecord EXCEPT !.kind = "mdctx",
                                         !.st = "new", !.owner = who]],
           ctx |-> h]
  ELSE [heap |-> hp, ctx |-> NoHandle]

EVP_DigestInit_ex(hp, ctx, md, ok) ==
  IF ok /\ hp[ctx].st = "new"
  THEN [heap |-> [hp EXCEPT ![ctx].st = "init", ![ctx].md = md], status |-> 1]
  ELSE [heap |-> hp, status |-> 0]

\* A context that is not initialised (finalised, freed) must not be updated:
\* the outcome is then whatever the library does, and the misuse is recorded.
EVP_DigestUpdate(hp, ctx, data, cnt, ok) ==
  IF hp[ctx].st /= "init"
  THEN [heap |-> [hp EXCEPT ![ctx].misused = TRUE], status |-> IF ok THEN 1 ELSE 0]
  ELSE IF ok
  THEN [heap |-> [hp EXCEPT ![ctx].data = Concat(@, Take(data, cnt))], status |-> 1]
  ELSE [heap |-> hp, status |-> 0]

\* EVP_DigestFinal writes the digest and its size and resets the context,
\* whatever its result.
EVP_DigestFinal(hp, ctx, ok) ==
  IF hp[ctx].st /= "init"
  THEN [heap |-> [hp EXCEPT ![ctx].misused = TRUE, ![ctx].finals = @ + 1],
        status |-> IF ok THEN 1 ELSE 0,
        finalHash |-> Digest(hp[ctx].md, hp[ctx].data), size |-> MdSize(hp[ctx].md)]
  ELSE [heap |-> [hp EXCEPT ![ctx].st = "final", ![ctx].finals = @ + 1],
        status |-> IF ok THEN 1 ELSE 0,
        finalHash |-> Digest(hp[ctx].md, hp[ctx].data), size |-> MdSize(hp[ctx].md)]

\* What a released handle keeps is its identity and how often it was released.
Released(rec, st) ==
  [NoRecord EXCEPT !.kind = rec.kind, !.st = st, !.owner = rec.owner,
                   !.provider = rec.provider, !.released = rec.released + 1]

EVP_MD_CTX_free(hp, ctx) ==
  IF ctx = NoHandle THEN hp
  ELSE [hp EXCEPT ![ctx] = Released(@, "freed")]

(***************************************************************************)
(* BCrypt primitives.  status TRUE is BCRYPT_SUCCESS(status).              *)
(***************************************************************************)
BCryptOpenAlgorithmProvider(hp, who, md, ok) ==
  IF ok
  THEN LET h == Fresh(hp)
       IN [heap |-> [hp EXCEPT ![h] = [NoRecord EXCEPT !.kind = "alg",
                                         !.st = "open", !.md = md, !.owner = who]],
           status |-> TRUE, Handle |-> h]
  ELSE [heap |-> hp, status |-> FALSE, Handle |-> NoHandle]

BCryptGetProperty(hp, hAlg, property, ok) ==
  IF ok /\ hp[hAlg].st = "open"
  THEN [status |-> TRUE,
        value |-> IF property = "BCRYPT_OBJECT_LENGTH"
                  THEN ObjectLength(hp[hAlg].md) ELSE MdSize(hp[hAlg].md)]
  ELSE [status |-> FALSE, value |-> 0]

BCryptCreateHash(hp, who, hAlg, cbHashObject, ok) ==
  IF ok /\ hp[hAlg].st = "open" /\ cbHashObject >= ObjectLength(hp[hAlg].md)
  THEN LET h == Fresh(hp)
       IN [heap |-> [hp EXCEPT ![h] = [NoRecord EXCEPT !.kind = "hash",
                                         !.st = "init", !.md = hp[hAlg].md,
                                         !.owner = who, !.provider = hAlg]],
           status |-> TRUE, hHash |-> h]
  ELSE [heap |-> hp, status |-> FALSE, hHash |-> NoHandle]

BCryptHashData(hp, hHash, data, cbInput, ok) ==
  IF hHash = NoHandle THEN [heap |-> hp, status |-> FALSE]
  ELSE IF hp[hHash].st /= "init"
  THEN [heap |-> [hp EXCEPT ![hHash].misused = TRUE], status |-> ok]
  ELSE IF ok
  THEN [heap |-> [hp EXCEPT ![hHash].data = Concat(@, Take(data, cbInput))],
        status |-> TRUE]
  ELSE [heap |-> hp, status |-> FALSE]

\* The output buffer must have the size of the digest.
BCryptFinishHash(hp, hHash, cbOutput, ok) ==
  IF hHash = NoHandle THEN [heap |-> hp, status |-> FALSE, hash |-> Digest("none", <<>>)]
  ELSE IF hp[hHash].st /= "init"
  THEN [heap |-> [hp EXCEPT ![hHash].misused = TRUE, ![hHash].finals = @ + 1],
        status |-> ok, hash |-> Digest(hp[hHash].md, hp[hHash].data)]
  ELSE IF ok /\ cbOutput = MdSize(hp[hHash].md)
  THEN [heap |-> [hp EXCEPT ![hHash].st = "final", ![hHash].finals = @ + 1],
        status |-> TRUE, hash |-> Digest(hp[hHash].md, hp[hHash].data)]
  ELSE [heap |-> [hp EXCEPT ![hHash].finals = @ + 1],
        status |-> FALSE, hash |-> Digest("none", <<>>)]

BCryptDestroyHash(hp, hHash) ==
  IF hHash = NoHandle THEN hp
  ELSE [hp EXCEPT ![hHash] = Released(@, "freed")]

BCryptCloseAlgorithmProvider(hp, hAlg) ==
  IF hAlg = NoHandle THEN hp
  ELSE [hp EXCEPT ![hAlg] = Released(@, "closed")]

(***************************************************************************)
(* The object.  `self` holds the data members of the implementation class  *)
(* of the build (m_context; or m_buffer, m_hashHandle, m_hashLength),      *)
(* m_isDone of the base class Azure::Core::Cryptography::Hash, and which   *)
(* of SHA256, SHA384, SHA512 the object is (type).                         *)
(***************************************************************************)
Unconstructed ==
  [type |-> "none", m_context |-> NoHandle, m_buffer |-> 0,
   m_hashHandle |-> NoHandle, m_hashLength |-> 0, m_isDone |-> FALSE]

(***************************************************************************)
(* class SHAWithOpenSSL                                                    *)
(***************************************************************************)
SHAWithOpenSSL_OnAppend(hp, self, data, length, okUpdate) ==
  LET u == EVP_DigestUpdate(hp, self.m_context, data, length, okUpdate)
      t == <<Call("EVP_DigestUpdate", u.status = 1, length)>>
  IN IF 1 /= u.status
     THEN [heap |-> u.heap, thrown |-> "Crypto error while updating SHA256.", trace |-> t]
     ELSE [heap |-> u.heap, thrown |-> "none", trace |-> t]

\* SHAWithOpenSSL::OnFinal with the result of the update left unchecked.
SHAWithOpenSSL_OnFinal_unchecked(hp, self, data, length, okUpdate, okFinal) ==
  LET u == EVP_DigestUpdate(hp, self.m_context, data, length, okUpdate)
      f == EVP_DigestFinal(u.heap, self.m_context, okFinal)
      t == <<Call("EVP_DigestUpdate", u.status = 1, length),
             Call("EVP_DigestFinal", f.status = 1, LZero)>>
  IN IF 1 /= f.status
     THEN [heap |-> f.heap, thrown |-> "Crypto error while computing SHA256.",
           value |-> NoValue, trace |-> t]
     ELSE [heap |-> f.heap, thrown |-> "none",
           value |-> Vector(f.finalHash, f.size), trace |-> t]

SHAWithOpenSSL_OnFinal(hp, self, data, length, okUpdate, okFinal) ==
  LET a == SHAWithOpenSSL_OnAppend(hp, self, data, length, okUpdate)
  IN IF a.thrown /= "none"
     THEN [heap |-> a.heap, thrown |-> a.thrown, value |-> NoValue, trace |-> a.trace]
     ELSE LET f == EVP_DigestFinal(a.heap, self.m_context, okFinal)
              t == a.trace \o <<Call("EVP_DigestFinal", f.status = 1, LZero)>>
          IN IF 1 /= f.status
             THEN [heap |-> f.heap, thrown |-> "Crypto error while computing SHA256.",
                   value |-> NoValue, trace |-> t]
             ELSE [heap |-> f.heap, thrown |-> "none",
                   value |-> Vector(f.finalHash, f.size), trace |-> t]

\* The switch with the SHA384 case initialising EVP_sha256().
EVP_md_copied(size) ==
  CASE size = "SHA256" -> "sha256"
    [] size = "SHA384" -> "sha256"
    [] size = "SHA512" -> "sha512"

\* switch (size): the EVP_MD each SHASize initialises the context with
EVP_md(size) ==
  CASE size = "SHA256" -> "sha256"
    [] size = "SHA384" -> "sha384"
    [] size = "SHA512" -> "sha512"

\* SHAWithOpenSSL with m_context a static member: the objects share a context.
SHAWithOpenSSL_ctor_static(hp, who, size, okNew, okInit) ==
  IF \E h \in Handles : hp[h].kind = "mdctx" /\ hp[h].st = "init"
  THEN [heap |-> hp,
        self |-> [Unconstructed EXCEPT !.m_context =
                    CHOOSE h \in Handles : hp[h].kind = "mdctx" /\ hp[h].st = "init"],
        thrown |-> "none"]
  ELSE LET n == EVP_MD_CTX_new(hp, who, okNew)
       IN IF n.ctx = NoHandle
          THEN [heap |-> n.heap, self |-> Unconstructed,
                thrown |-> "Crypto error while creating EVP context."]
          ELSE LET i == EVP_DigestInit_ex(n.heap, n.ctx, EVP_md(size), okInit)
               IN IF 1 /= i.status
                  THEN [heap |-> i.heap, self |-> Unconstructed,
                        thrown |-> "Crypto error while init " \o size \o "."]
                  ELSE [heap |-> i.heap,
                        self |-> [Unconstructed EXCEPT !.m_context = n.ctx],
                        thrown |-> "none"]

\* A constructor that throws leaves no object: its destructor never runs.
SHAWithOpenSSL_ctor(hp, who, size, okNew, okInit) ==
  LET n == EVP_MD_CTX_new(hp, who, okNew)
  IN IF n.ctx = NoHandle
     THEN [heap |-> n.heap, self |-> Unconstructed,
           thrown |-> "Crypto error while creating EVP context."]
     ELSE LET i == EVP_DigestInit_ex(n.heap, n.ctx, EVP_md(size), okInit)
          IN IF 1 /= i.status
             THEN [heap |-> i.heap, self |-> Unconstructed,
                   thrown |-> "Crypto error while init " \o size \o "."]
             ELSE [heap |-> i.heap,
                   self |-> [Unconstructed EXCEPT !.m_context = n.ctx],
                   thrown |-> "none"]

SHAWithOpenSSL_dtor(hp, self) == EVP_MD_CTX_free(hp, self.m_context)

(***************************************************************************)
(* struct AlgorithmProviderInstance                                        *)
(***************************************************************************)
NoProvider == [Handle |-> NoHandle, ContextSize |-> 0, HashLength |-> 0]

AlgorithmProviderInstance_ctor(hp, who, hashAlgorithm, okOpen, okObjLen, okHashLen) ==
  LET o == BCryptOpenAlgorithmProvider(hp, who, hashAlgorithm, okOpen)
  IN IF ~o.status
     THEN [heap |-> o.heap, self |-> NoProvider,
           thrown |-> "BCryptOpenAlgorithmProvider failed"]
     ELSE LET p1 == BCryptGetProperty(o.heap, o.Handle, "BCRYPT_OBJECT_LENGTH", okObjLen)
          IN IF ~p1.status
             THEN [heap |-> o.heap, self |-> NoProvider,
                   thrown |-> "BCryptGetProperty failed"]
             ELSE LET p2 == BCryptGetProperty(o.heap, o.Handle, "BCRYPT_HASH_LENGTH",
                                              okHashLen)
                  IN IF ~p2.status
                     THEN [heap |-> o.heap, self |-> NoProvider,
                           thrown |-> "BCryptGetProperty failed"]
                     ELSE [heap |-> o.heap,
                           self |-> [Handle |-> o.Handle, ContextSize |-> p1.value,
                                     HashLength |-> p2.value],
                           thrown |-> "none"]

AlgorithmProviderInstance_dtor(hp, self) == BCryptCloseAlgorithmProvider(hp, self.Handle)

(***************************************************************************)
(* class SHAWithBCrypt                                                     *)
(***************************************************************************)
SHAWithBCrypt_OnAppend(hp, self, data, length, okHashData) ==
  LET cb == ToULONG(length)
      u == BCryptHashData(hp, self.m_hashHandle, data, cb, okHashData)
      t == <<Call("BCryptHashData", u.status, cb)>>
  IN IF ~u.status
     THEN [heap |-> u.heap, thrown |-> "BCryptHashData failed", trace |-> t]
     ELSE [heap |-> u.heap, thrown |-> "none", trace |-> t]

\* SHAWithBCrypt::OnFinal without its call of OnAppend: the final chunk is lost.
SHAWithBCrypt_OnFinal_dropsChunk(hp, self, data, length, okHashData, okFinish) ==
  LET f == BCryptFinishHash(hp, self.m_hashHandle, self.m_hashLength, okFinish)
      t == <<Call("BCryptHashData", TRUE, ToULONG(length)),
             Call("BCryptFinishHash", f.status, LZero)>>
  IN IF ~f.status
     THEN [heap |-> f.heap, thrown |-> "BCryptFinishHash failed",
           value |-> NoValue, trace |-> t]
     ELSE [heap |-> f.heap, thrown |-> "none",
           value |-> Vector(f.hash, self.m_hashLength), trace |-> t]

SHAWithBCrypt_OnFinal(hp, self, data, length, okHashData, okFinish) ==
  LET a == SHAWithBCrypt_OnAppend(hp, self, data, length, okHashData)
  IN IF a.thrown /= "none"
     THEN [heap |-> a.heap, thrown |-> a.thrown, value |-> NoValue, trace |-> a.trace]
     ELSE LET f == BCryptFinishHash(a.heap, self.m_hashHandle, self.m_hashLength, okFinish)
              t == a.trace \o <<Call("BCryptFinishHash", f.status, LZero)>>
          IN IF ~f.status
             THEN [heap |-> f.heap, thrown |-> "BCryptFinishHash failed",
                   value |-> NoValue, trace |-> t]
             ELSE [heap |-> f.heap, thrown |-> "none",
                   value |-> Vector(f.hash, self.m_hashLength), trace |-> t]

\* SHAWithBCrypt's constructor with the provider kept open when it succeeds.
SHAWithBCrypt_ctor_keepsProvider(hp, who, hashAlgorithm, okOpen, okObjLen, okHashLen, okCreate) ==
  LET algorithmProvider ==
        AlgorithmProviderInstance_ctor(hp, who, hashAlgorithm, okOpen, okObjLen, okHashLen)
  IN IF algorithmProvider.thrown /= "none"
     THEN [heap |-> algorithmProvider.heap, self |-> Unconstructed,
           thrown |-> algorithmProvider.thrown]
     ELSE LET ap == algorithmProvider.self
              c == BCryptCreateHash(algorithmProvider.heap, who, ap.Handle,
                                    ap.ContextSize, okCreate)
          IN IF ~c.status
             THEN [heap |-> AlgorithmProviderInstance_dtor(c.heap, ap),
                   self |-> Unconstructed, thrown |-> "BCryptCreateHash failed"]
             ELSE [heap |-> c.heap,
                   self |-> [Unconstructed EXCEPT !.m_buffer = ap.ContextSize,
                                                  !.m_hashHandle = c.hHash,
                                                  !.m_hashLength = ap.HashLength],
                   thrown |-> "none"]

\* algorithmProvider is a local of the constructor: it is destroyed when the
\* constructor returns and when BCryptCreateHash's failure unwinds it, and is
\* never constructed when its own constructor throws.
SHAWithBCrypt_ctor(hp, who, hashAlgorithm, okOpen, okObjLen, okHashLen, okCreate) ==
  LET algorithmProvider ==
        AlgorithmProviderInstance_ctor(hp, who, hashAlgorithm, okOpen, okObjLen, okHashLen)
  IN IF algorithmProvider.thrown /= "none"
     THEN [heap |-> algorithmProvider.heap, self |-> Unconstructed,
           thrown |-> algorithmProvider.thrown]
     ELSE LET ap == algorithmProvider.self
              c == BCryptCreateHash(algorithmProvider.heap, who, ap.Handle,
                                    ap.ContextSize, okCreate)
              left == AlgorithmProviderInstance_dtor(c.heap, ap)
          IN IF ~c.status
             THEN [heap |-> left, self |-> Unconstructed,
                   thrown |-> "BCryptCreateHash failed"]
             ELSE [heap |-> left,
                   self |-> [Unconstructed EXCEPT !.m_buffer = ap.ContextSize,
                                                  !.m_hashHandle = c.hHash,
                                                  !.m_hashLength = ap.HashLength],
                   thrown |-> "none"]

SHAWithBCrypt_dtor(hp, self) == BCryptDestroyHash(hp, self.m_hashHandle)

\* BCRYPT_SHA256_ALGORITHM, BCRYPT_SHA384_ALGORITHM, BCRYPT_SHA512_ALGORITHM
BCRYPT_ALGORITHM(size) ==
  CASE size = "SHA256" -> "sha256"
    [] size = "SHA384" -> "sha384"
    [] size = "SHA512" -> "sha512"

(***************************************************************************)
(* SHA256, SHA384, SHA512: the implementation the build selects.           *)
(***************************************************************************)
\* m_portableImplementation(std::make_unique<...>(...)); `type` names the class.
SHA_ctor(pf, hp, who, size, ok) ==
  LET r == IF pf = "POSIX"
           THEN SHAWithOpenSSL_ctor(hp, who, size, ok[1], ok[2])
           ELSE SHAWithBCrypt_ctor(hp, who, BCRYPT_ALGORITHM(size),
                                   ok[1], ok[2], ok[3], ok[4])
  IN IF r.thrown = "none" THEN [r EXCEPT !.self.type = size] ELSE r

SHA_dtor(pf, hp, self) ==
  IF pf = "POSIX" THEN SHAWithOpenSSL_dtor(hp, self) ELSE SHAWithBCrypt_dtor(hp, self)

OnAppend(pf, hp, self, data, length, okUpdate) ==
  IF pf = "POSIX"
  THEN SHAWithOpenSSL_OnAppend(hp, self, data, length, okUpdate)
  ELSE SHAWithBCrypt_OnAppend(hp, self, data, length, okUpdate)

OnFinal(pf, hp, self, data, length, okUpdate, okFinal) ==
  IF pf = "POSIX"
  THEN SHAWithOpenSSL_OnFinal(hp, self, data, length, okUpdate, okFinal)
  ELSE SHAWithBCrypt_OnFinal(hp, self, data, length, okUpdate, okFinal)

(***************************************************************************)
(* Azure::Core::Cryptography::Hash, the base class: Append and Final are   *)
(* its public members and call OnAppend and OnFinal.  Final is terminal:   *)
(* a call after it is refused with an error before the implementation is   *)
(* reached.                                                                *)
(***************************************************************************)
Hash_Append(pf, hp, self, data, length, okUpdate) ==
  IF self.m_isDone
  THEN [heap |-> hp, self |-> self, thrown |-> "Cannot call Append after calling Final().",
        trace |-> <<>>]
  ELSE LET r == OnAppend(pf, hp, self, data, length, okUpdate)
       IN [heap |-> r.heap, self |-> self, thrown |-> r.thrown, trace |-> r.trace]

\* Final without the test of m_isDone.
Hash_Final_unguarded(pf, hp, self, data, length, okUpdate, okFinal) ==
  LET r == OnFinal(pf, hp, self, data, length, okUpdate, okFinal)
  IN [heap |-> r.heap, self |-> [self EXCEPT !.m_isDone = TRUE],
      thrown |-> r.thrown, value |-> r.value, trace |-> r.trace]

Hash_Final(pf, hp, self, data, length, okUpdate, okFinal) ==
  IF self.m_isDone
  THEN [heap |-> hp, self |-> self, thrown |-> "Cannot call Final() multiple times.",
        value |-> NoValue, trace |-> <<>>]
  ELSE LET r == OnFinal(pf, hp, self, data, length, okUpdate, okFinal)
       IN [heap |-> r.heap, self |-> [self EXCEPT !.m_isDone = TRUE],
           thrown |-> r.thrown, value |-> r.value, trace |-> r.trace]

(***************************************************************************)
(* State.                                                                  *)
(*   platform  the backend of the build (fixed)                            *)
(*   heap      the native handles                                          *)
(*   life      none -> live -> destroyed, or none -> failed (the           *)
(*             constructor threw)                                          *)
(*   obj       the data members of each object                             *)
(*   hist      per instance, what the caller did and got: the bytes it     *)
(*             passed so far (input), whether a call has thrown (failed),  *)
(*             the number of calls, of Final calls, the constructor's      *)
(*             exception, and the last call with its outcome (ret)         *)
(***************************************************************************)
NoRet ==
  [op |-> "none", arg |-> <<>>, thrown |-> "none",
   value |-> NoValue, trace |-> <<>>]

NoHist ==
  [input |-> <<>>, failed |-> FALSE, ncalls |-> 0, nfinal |-> 0,
   ctorErr |-> "none", ret |-> NoRet]

\* 2^31 and 2^32
Half == Sz(ULongUnits \div 2, 0)

Full == Sz(ULongUnits, 0)

One == Sz(0, 1)

\* the chunks a caller passes in the one-instance specification
Chunks ==
  {<<>>, <<Run(0, One)>>, <<Run(1, One)>>, <<Run(0, Half)>>, <<Run(0, Full)>>}

\* and in the two-instance specification, whose instances are of these classes
PairSizes == {"SHA256", "SHA512"}

PairChunks == {<<Run(0, Half)>>, <<Run(0, Full)>>}

Init ==
  /\ platform \in {"POSIX", "WINDOWS"}
  /\ heap = [h \in Handles |-> NoRecord]
  /\ life = [i \in Instances |-> "none"]
  /\ obj = [i \in Instances |-> Unconstructed]
  /\ hist = [i \in Instances |-> NoHist]

\* SHA256(), SHA384(), SHA512()
Construct(i, size) ==
  /\ life[i] = "none"
  /\ \E ok \in [1 .. 4 -> BOOLEAN] :
       \* the OpenSSL constructor calls two primitives that can fail, BCrypt's four
       /\ platform = "POSIX" => ok[3] /\ ok[4]
       /\ LET r == SHA_ctor(platform, heap, i, size, ok)
          IN /\ heap' = r.heap
             /\ life' = [life EXCEPT ![i] = IF r.thrown = "none" THEN "live"
                                               ELSE "failed"]
             /\ obj' = [obj EXCEPT ![i] = r.self]
             /\ hist' = [hist EXCEPT ![i].ctorErr = r.thrown]
  /\ UNCHANGED platform

\* Hash::Append(data, length)
CallAppend(i, data) ==
  /\ life[i] = "live"
  /\ \E okUpdate \in BOOLEAN :
       LET r == Hash_Append(platform, heap, obj[i], data, DataLen(data), okUpdate)
       IN /\ heap' = r.heap
          /\ obj' = [obj EXCEPT ![i] = r.self]
          /\ hist' = [hist EXCEPT ![i] =
                        [@ EXCEPT !.input = Concat(@, data),
                                  !.failed = @ \/ r.thrown /= "none",
                                  !.ncalls = @ + 1,
                                  !.ret = [op |-> "Append", arg |-> data,
                                           thrown |-> r.thrown, value |-> NoValue,
                                           trace |-> r.trace]]]
  /\ UNCHANGED <<platform, life>>

\* Hash::Final(data, length)
CallFinal(i, data) ==
  /\ life[i] = "live"
  /\ \E okUpdate, okFinal \in BOOLEAN :
       LET r == Hash_Final(platform, heap, obj[i], data, DataLen(data), okUpdate, okFinal)
       IN /\ heap' = r.heap
          /\ obj' = [obj EXCEPT ![i] = r.self]
          /\ hist' = [hist EXCEPT ![i] =
                        [@ EXCEPT !.input = Concat(@, data),
                                  !.failed = @ \/ r.thrown /= "none",
                                  !.ncalls = @ + 1,
                                  !.nfinal = @ + 1,
                                  !.ret = [op |-> "Final", arg |-> data,
                                           thrown |-> r.thrown, value |-> r.value,
                                           trace |-> r.trace]]]
  /\ UNCHANGED <<platform, life>>

\* ~SHA256() etc.: the object and what the caller knew of it are gone
Destroy(i) ==
  /\ life[i] = "live"
  /\ heap' = SHA_dtor(platform, heap, obj[i])
  /\ life' = [life EXCEPT ![i] = "destroyed"]
  /\ obj' = [obj EXCEPT ![i] = Unconstructed]
  /\ hist' = [hist EXCEPT ![i] = [NoHist EXCEPT !.ncalls = hist[i].ncalls]]
  /\ UNCHANGED platform

\* one instance, used by one caller
Next ==
  \/ \E size \in SHASize : Construct(1, size)
  \/ \E data \in Chunks : hist[1].ncalls < MaxCalls /\ CallAppend(1, data)
  \/ \E data \in Chunks : hist[1].ncalls < MaxCalls /\ CallFinal(1, data)
  \/ Destroy(1)

Spec == Init /\ [][Next]_vars

\* two instances, their calls interleaved in every order
PairCalls == hist[1].ncalls + hist[2].ncalls

NextPair ==
  \E i \in Instances :
    \/ \E size \in PairSizes : Construct(i, size)
    \/ \E data \in PairChunks : PairCalls < MaxCallsPair /\ CallAppend(i, data)
    \/ \E data \in PairChunks : PairCalls < MaxCallsPair /\ CallFinal(i, data)
    \/ Destroy(i)

SpecPair == Init /\ [][NextPair]_vars

(***************************************************************************)
(* Properties.                                                             *)
(***************************************************************************)
\* the native handles an object holds
HandlesHeld(self) == {self.m_context, self.m_hashHandle} \ {NoHandle}

Acquired == {h \in Handles : heap[h].kind /= "none"}

\* the instance's life is over: it was destroyed, or its constructor threw
Ended(i) == life[i] \in {"failed", "destroyed"}

ReturnedDigest(i) == hist[i].ret.op = "Final" /\ hist[i].ret.value.present

\* C1: every native handle an instance acquired is released exactly once by
\* the time the instance's life has ended, whether it was constructed and
\* destroyed or its constructor failed part-way; no handle is released twice.
C1_ReleasedExactlyOnce ==
  \A h \in Acquired :
    /\ heap[h].released <= 1
    /\ Ended(heap[h].owner) => heap[h].released = 1

\* C2: a Final call on an instance whose Final was already called ends in
\* the explicit error, returns no digest and reaches no backend primitive;
\* no context is ever finished twice or used after it was finished.
C2_SecondFinalRefused ==
  \A i \in Instances :
    /\ (hist[i].ret.op = "Final" /\ hist[i].nfinal >= 2) =>
         /\ hist[i].ret.thrown = "Cannot call Final() multiple times."
         /\ ~hist[i].ret.value.present
         /\ hist[i].ret.trace = <<>>
    /\ \A h \in HandlesHeld(obj[i]) : heap[h].finals <= 1 /\ ~heap[h].misused

\* reached: Final was called again on an instance whose context was finished
C2_SecondFinalHappened ==
  \E i \in Instances :
    /\ hist[i].ret.op = "Final"
    /\ hist[i].nfinal >= 2
    /\ \E h \in HandlesHeld(obj[i]) : heap[h].finals = 1

\* C3: Final returns a digest only when the update of the final chunk and
\* the finish primitive both succeeded; a failed update raises the error
\* with the finish primitive not called, a failed finish raises an error,
\* and an error comes with no bytes.
C3_FinalAllOrNothing ==
  \A i \in Instances :
    LET r == hist[i].ret
    IN r.op = "Final" =>
         /\ r.value.present <=> r.thrown = "none"
         /\ r.value.present =>
              /\ Len(r.trace) = 2
              /\ r.trace[1].prim \in {"EVP_DigestUpdate", "BCryptHashData"}
              /\ r.trace[2].prim \in {"EVP_DigestFinal", "BCryptFinishHash"}
              /\ r.trace[1].ok /\ r.trace[2].ok
         /\ (Len(r.trace) >= 1 /\ ~r.trace[1].ok) =>
              Len(r.trace) = 1 /\ r.thrown /= "none"
         /\ (Len(r.trace) = 2 /\ ~r.trace[2].ok) => r.thrown /= "none"

\* reached: after an earlier call, a Final whose update succeeded and whose
\* finish primitive failed
C3_FinishFailedAfterUpdate ==
  \E i \in Instances :
    /\ hist[i].ret.op = "Final"
    /\ hist[i].ncalls >= 2
    /\ Len(hist[i].ret.trace) = 2
    /\ hist[i].ret.trace[1].ok
    /\ ~hist[i].ret.trace[2].ok
    /\ ~hist[i].ret.value.present

\* C4: once a call on an instance has failed with an error, no later Final
\* on that instance returns a digest.
C4_NoDigestAfterFailure ==
  \A i \in Instances : ReturnedDigest(i) => ~hist[i].failed

\* a step in which Final is called on instance i, not yet finalised
C5_FinalStep(i) ==
  /\ life[i] = "live"
  /\ hist'[i].ncalls = hist[i].ncalls + 1
  /\ hist'[i].ret.op = "Final"
  /\ ~obj[i].m_isDone

\* C5: a call Final(data) does what Append(data) followed by Final(empty)
\* does from the same state under the same backend outcomes: the same bytes
\* are in the backend context when it is finished, the same digest is
\* returned, and one raises an error exactly when the other does.
C5_FinalIsAppendThenFinal ==
  [][\A i \in Instances :
       C5_FinalStep(i) =>
         LET r == hist'[i].ret
             okUpdate == r.trace[1].ok
             okFinal == IF Len(r.trace) = 2 THEN r.trace[2].ok ELSE TRUE
             a == Hash_Append(platform, heap, obj[i], r.arg, DataLen(r.arg), okUpdate)
             f == Hash_Final(platform, a.heap, a.self, <<>>, LZero, TRUE, okFinal)
             threw == a.thrown /= "none" \/ f.thrown /= "none"
             after == IF a.thrown /= "none" THEN a.heap ELSE f.heap
         IN /\ (r.thrown /= "none") <=> threw
            /\ r.value = IF threw THEN NoValue ELSE f.value
            /\ \A h \in HandlesHeld(obj[i]) : heap'[h].data = after[h].data]_vars

\* reached: a Final with a non-empty chunk returned a digest after earlier
\* chunks
C5_FinalWithChunkAfterAppends ==
  \E i \in Instances :
    /\ ReturnedDigest(i)
    /\ hist[i].ret.arg /= <<>>
    /\ hist[i].ncalls >= 2
    /\ hist[i].input /= hist[i].ret.arg

\* C6: the digest depends only on the concatenation of the chunks passed to
\* Append and Final: two instances of the same class whose calls all
\* succeeded and whose chunks concatenate to the same bytes return the same
\* digest, however the bytes were split.
C6_ChunkingTransparent ==
  \A i, j \in Instances :
    (/\ ReturnedDigest(i) /\ ReturnedDigest(j)
     /\ ~hist[i].failed /\ ~hist[j].failed
     /\ obj[i].type = obj[j].type
     /\ hist[i].input = hist[j].input)
    => hist[i].ret.value = hist[j].ret.value

\* the digest length documented for each class
ExpectedLength(type) ==
  CASE type = "SHA256" -> 32
    [] type = "SHA384" -> 48
    [] type = "SHA512" -> 64
    [] OTHER -> 0

View(i) ==
  <<life[i], obj[i], hist[i],
    [h \in Handles |->
       IF h \in HandlesHeld(obj[i]) \/ heap[h].owner = i THEN heap[h] ELSE NoRecord]>>

\* the handles with those of the other instances taken away
Alone(i) ==
  [h \in Handles |-> IF heap[h].owner = i THEN heap[h] ELSE NoRecord]

\* a step in which Append or Final is called on instance i
C8_CallStep(i) == life[i] = "live" /\ hist'[i].ncalls = hist[i].ncalls + 1

\* the call of the step returns the same with instance i alone
C8_SameAlone(i) ==
  LET r == hist'[i].ret
      okUpdate == IF Len(r.trace) >= 1 THEN r.trace[1].ok ELSE TRUE
      okFinal == IF Len(r.trace) = 2 THEN r.trace[2].ok ELSE TRUE
      a == Hash_Append(platform, Alone(i), obj[i], r.arg, DataLen(r.arg), okUpdate)
      f == Hash_Final(platform, Alone(i), obj[i], r.arg, DataLen(r.arg), okUpdate, okFinal)
  IN IF r.op = "Append"
     THEN a.thrown = r.thrown /\ a.trace = r.trace
     ELSE f.thrown = r.thrown /\ f.trace = r.trace /\ f.value = r.value

\* no two objects hold the same handle
C8_Disjoint ==
  \A i, j \in Instances :
    i /= j => HandlesHeld(obj[i]) \cap HandlesHeld(obj[j]) = {}

\* C8: instances share no state.  Two objects hold no handle in common; a
\* step changes at most one instance (its members, its handles, what its
\* caller observed); and a call returns what it returns with the handles of
\* the other instances taken away.
C8_Independent ==
  /\ []C8_Disjoint
  /\ [][/\ Cardinality({i \in Instances : View(i)' /= View(i)}) <= 1
        /\ \A i \in Instances : C8_CallStep(i) => C8_SameAlone(i)]_vars

\* reached: both instances live, one has returned a digest and the other has
\* appended
C8_BothUsed ==
  /\ life[1] = "live" /\ life[2] = "live"
  /\ ReturnedDigest(1)
  /\ hist[2].ret.op = "Append"
  /\ hist[2].ret.thrown = "none"

\* C9: on the BCrypt backend the byte count handed to BCryptHashData is the
\* length the caller passed: a call of the primitive that reports success
\* was handed every byte of the chunk.
C9_HashDataGetsLength ==
  \A i \in Instances :
    \A k \in DOMAIN hist[i].ret.trace :
      (hist[i].ret.trace[k].prim = "BCryptHashData" /\ hist[i].ret.trace[k].ok) =>
        hist[i].ret.trace[k].cb = DataLen(hist[i].ret.arg)

\* C10: on the BCrypt backend the provider handle is closed, once, when the
\* constructor has returned normally or with BCryptCreateHash's failure, so
\* a hash object exists, is used and is destroyed only with the provider
\* that created it already closed.
C10_ProviderClosed ==
  \A h \in Acquired :
    /\ heap[h].kind = "hash" =>
         /\ heap[heap[h].provider].kind = "alg"
         /\ heap[heap[h].provider].st = "closed"
         /\ heap[heap[h].provider].released = 1
    /\ (/\ heap[h].kind = "alg"
        /\ \/ life[heap[h].owner] \in {"live", "destroyed"}
           \/ hist[heap[h].owner].ctorErr = "BCryptCreateHash failed")
       => heap[h].st = "closed" /\ heap[h].released = 1

\* reached: a hash object was destroyed, its provider closed before
C10_HashDestroyed ==
  \E h \in Acquired :
    /\ heap[h].kind = "hash"
    /\ heap[h].st = "freed"
    /\ heap[heap[h].provider].st = "closed"

====
